---- MODULE Spec2Model ----
(***************************************************************************)
(* A model of ply.js (src/src/ply.js): the Ply pipeline object, its chain  *)
(* building methods group / map / filter / reduce / reset, the deferred    *)
(* step closures they push on this.funcs, and transform, which replays    *)
(* the closures over a copy of the data.                                   *)
(*                                                                         *)
(* JavaScript objects are modelled with their identity: records live in a  *)
(* heap (a sequence of records, the index is the address), arrays hold     *)
(* addresses, and a mapper that assigns to the record it receives changes  *)
(* the heap cell.  A plain object used as a dictionary (the result of the  *)
(* group step) keeps its keys in insertion order; Object.keys lists them   *)
(* in the order of the language: array-index keys ascending, then the      *)
(* other keys in insertion order.                                          *)
(***************************************************************************)
EXTENDS Integers, Sequences, FiniteSets, TLC

(***************************************************************************)
(* Bounds of the model.                                                    *)
(***************************************************************************)
\* longest data array given to the constructor
MaxLen == 2
\* longest list of deferred steps (this.funcs)
MaxSteps == 3
\* the array-index keys the model recognises are "0" .. ToString(MaxIndexKey)
\* (the language's limit is 2^32 - 2)
MaxIndexKey == 9

(***************************************************************************)
(* Program constants.                                                      *)
(***************************************************************************)
STEPS_GROUP == "group"
STEPS_DATASET == "dataset"
SEPARATOR == "||"

(***************************************************************************)
(* JavaScript values: numbers, strings, undefined and NaN.                 *)
(***************************************************************************)
Num(i) == [k |-> "num", n |-> i, s |-> ""]
StrV(t) == [k |-> "str", n |-> 0, s |-> t]
Undefined == [k |-> "undef", n |-> 0, s |-> ""]
NaN == [k |-> "nan", n |-> 0, s |-> ""]
\* the numbers that only Ply.mean, Ply.max and Ply.min produce, and that no
\* record of the model holds: the infinities and the non-integers n / d
Infinity == [k |-> "inf", n |-> 0, s |-> ""]
NegInfinity == [k |-> "-inf", n |-> 0, s |-> ""]
RECURSIVE GCD(_, _)
GCD(x, y) == IF y = 0 THEN x ELSE GCD(y, x % y)
\* n / d for integers n >= 0 and d >= 0
Ratio(n, d) ==
  IF d = 0 THEN (IF n = 0 THEN NaN ELSE Infinity)
  ELSE IF n % d = 0 THEN Num(n \div d)
  ELSE [k |-> "ratio", n |-> n \div GCD(n, d), s |-> "", d |-> d \div GCD(n, d)]

\* the element conversion of Array.prototype.join: undefined gives the empty
\* string, anything else its string form
JoinStr(v) ==
  CASE v.k = "num" -> ToString(v.n)
    [] v.k = "str" -> v.s
    [] v.k = "nan" -> "NaN"
    [] OTHER -> ""

RECURSIVE Join(_, _)
\* Array.prototype.join(sep) of a sequence of values
Join(vs, sep) ==
  IF vs = <<>> THEN ""
  ELSE IF Len(vs) = 1 THEN JoinStr(vs[1])
  ELSE JoinStr(vs[1]) \o sep \o Join(Tail(vs), sep)

\* a property key that is an array index ("0", "1", ...): Object.keys lists
\* these first, in ascending numeric order
IsIndexKey(key) == \E i \in 0..MaxIndexKey : ToString(i) = key
IndexOfKey(key) == CHOOSE i \in 0..MaxIndexKey : ToString(i) = key

\* ToNumber: a numeric string is its number, the empty string is 0, undefined
\* and every other string are NaN
ToNumber(v) ==
  CASE v.k = "num" -> v
    [] v.k = "str" /\ v.s = "" -> Num(0)
    [] v.k = "str" /\ IsIndexKey(v.s) -> Num(IndexOfKey(v.s))
    [] OTHER -> NaN

\* Number.isFinite(v): no conversion, only a number passes
IsFinite(v) == v.k = "num"

(***************************************************************************)
(* Records: plain objects over the field names the model uses.  A field a  *)
(* record does not have reads as undefined.                                *)
(***************************************************************************)
Fields == {"a", "b", "v", "n"}
EmptyObj == [f \in Fields |-> Undefined]
Rec(a, v) == [EmptyObj EXCEPT !["a"] = a, !["v"] = v]

\* the records the data arrays are made of
Pool == {Rec(Num(2), Num(1)), Rec(Num(1), Num(2)), Rec(StrV("x"), Num(3))}

RECURSIVE SeqsUpTo(_, _)
SeqsUpTo(S, n) ==
  IF n = 0 THEN {<<>>}
  ELSE LET shorter == SeqsUpTo(S, n - 1)
       IN shorter \cup {Append(q, e) : q \in {r \in shorter : Len(r) = n - 1}, e \in S}

(***************************************************************************)
(* The heap and the working value of transform.                            *)
(*   heap : a sequence of records, the index of a record is its address    *)
(*   an array is a sequence of addresses                                   *)
(*   a working value is an array (shape "arr") or the plain object built   *)
(*   by the group step (shape "grp": keys in insertion order, at[key] the  *)
(*   array stored under key)                                               *)
(*   a run of transform is [h, d, w, ok]: the heap, the contents of the    *)
(*   this.data array, the working value newData, and whether no step has   *)
(*   thrown                                                                *)
(***************************************************************************)
\* src tells whether the array is the this.data array itself (and not a copy)
ArrVal(arr, src) == [shape |-> "arr", arr |-> arr, keys |-> <<>>, at |-> <<>>, src |-> src]
GrpVal(keys, at) == [shape |-> "grp", arr |-> <<>>, keys |-> keys, at |-> at, src |-> FALSE]
AsGrpVal(o) == GrpVal(o.keys, o.at)

Contains(q, e) == \E i \in 1..Len(q) : q[i] = e

RECURSIVE SortedInts(_)
\* the members of a finite set of integers in ascending order
SortedInts(S) ==
  IF S = {} THEN <<>>
  ELSE LET m == CHOOSE x \in S : \A y \in S : x <= y
       IN <<m>> \o SortedInts(S \ {m})

\* Object.keys(o) of a plain object whose keys were inserted in the order
\* `keys`: the array-index keys in ascending numeric order, then the others
\* in insertion order
IndexKeysFirst(sortedIdx, keys) ==
  [i \in 1..Len(sortedIdx) |-> ToString(sortedIdx[i])]
  \o SelectSeq(keys, LAMBDA key : ~IsIndexKey(key))
ObjectKeys(keys) ==
  IndexKeysFirst(SortedInts({IndexOfKey(keys[i]) : i \in {j \in 1..Len(keys) : IsIndexKey(keys[j])}}),
                 keys)

(***************************************************************************)
(* The user functions the model passes to map, filter and reduce.          *)
(***************************************************************************)
\* v + 1
Plus1(v) ==
  CASE v.k = "num" -> Num(v.n + 1)
    [] v.k = "str" -> StrV(v.s \o "1")
    [] OTHER -> NaN

\* the mapper assigns to the record it receives and returns it:
\*   "bumpTag": d => { d.v = d.v + 1; d.b = d.a; return d }
\* (it overwrites the field v and adds the field b)
Mappers == {"bumpTag"}
\* the heap after mapper(h[addr]); the mapper returns addr itself
MapperHeap(fn, h, addr) ==
  [h EXCEPT ![addr]["v"] = Plus1(h[addr]["v"]), ![addr]["b"] = h[addr]["a"]]

\* predicates:  "vGt1": d => d.v > 1
Preds == {"vGt1"}
PredHolds(fn, rec) ==
  LET x == ToNumber(rec["v"]) IN x.k = "num" /\ x.n > 1

\* aggregators and literals, the values of a reduce spec:
\*   count          arr => arr.length                  (header comment)
\*   sum(field)     Ply.sum(field)
\*   quantile       Ply.quantile(qn/qd, field); Ply.median is quantile(.5)
\*   lit            a value that is not a function
Count == [t |-> "count", field |-> "", qn |-> 0, qd |-> 1, val |-> Undefined]
Sum(field) == [t |-> "sum", field |-> field, qn |-> 0, qd |-> 1, val |-> Undefined]
Quantile(qn, qd, field) == [t |-> "quantile", field |-> field, qn |-> qn, qd |-> qd, val |-> Undefined]
Median(field) == Quantile(1, 2, field)
Mean(field) == [t |-> "mean", field |-> field, qn |-> 0, qd |-> 1, val |-> Undefined]
Max(field) == [t |-> "max", field |-> field, qn |-> 0, qd |-> 1, val |-> Undefined]
Min(field) == [t |-> "min", field |-> field, qn |-> 0, qd |-> 1, val |-> Undefined]
Lit(v) == [t |-> "lit", field |-> "", qn |-> 0, qd |-> 1, val |-> v]

(***************************************************************************)
(* Ply.sum, Ply.quantile and arr => arr.length on an array of records.     *)
(***************************************************************************)
\* the comparator (a, b) => a[field] - b[field]; a NaN result counts as 0.
\* (When only some pairs compare as NaN the order sort leaves is up to the
\* engine; every value of a sorted field is a number in the arrays the model
\* builds, where the stable sort below is the only outcome.)
Minus(nx, ny) == IF nx.k = "num" /\ ny.k = "num" THEN nx.n - ny.n ELSE 0
Compare(x, y) == Minus(ToNumber(x), ToNumber(y))

RECURSIVE InsertSorted(_, _, _, _)
InsertSorted(h, field, sorted, e) ==
  IF sorted = <<>> THEN <<e>>
  ELSE LET last == sorted[Len(sorted)]
       IN IF Compare(h[last][field], h[e][field]) > 0
          THEN Append(InsertSorted(h, field, SubSeq(sorted, 1, Len(sorted) - 1), e), last)
          ELSE Append(sorted, e)

RECURSIVE SortBy(_, _, _)
\* arr.sort((a,b) => a[field] - b[field]): a stable sort of the array itself
SortBy(h, field, arr) ==
  IF arr = <<>> THEN <<>>
  ELSE InsertSorted(h, field, SortBy(h, field, SubSeq(arr, 1, Len(arr) - 1)), arr[Len(arr)])

RECURSIVE SumSeq(_)
SumSeq(ns) == IF ns = <<>> THEN 0 ELSE ns[1] + SumSeq(Tail(ns))

\* Ply.sum(field)(arr): throws when a value is not a finite number
sum(h, field, arr) ==
  IF \E i \in 1..Len(arr) : ~IsFinite(h[arr[i]][field])
  THEN [ok |-> FALSE, val |-> Undefined, arr |-> arr]
  ELSE [ok |-> TRUE, val |-> Num(SumSeq([i \in 1..Len(arr) |-> h[arr[i]][field].n])), arr |-> arr]

QuantileIndexOfLength(n, qn, qd) == (n * qn) \div qd
\* Math.floor((n - 1) * q) for q = qn / qd, as a 0-based index
QuantileIndex(n, qn, qd) == ((n - 1) * qn) \div qd

\* Ply.quantile(q, field)(arr): sorts arr in place, then reads
\* arr[floor((n-1)*q)][field]; on an empty array that element is undefined
\* and reading its field throws
ElementField(h, field, sorted, i) ==
  IF i < 0 \/ i >= Len(sorted)
  THEN [ok |-> FALSE, val |-> Undefined, arr |-> sorted]
  ELSE [ok |-> TRUE, val |-> h[sorted[i + 1]][field], arr |-> sorted]
quantile(h, qn, qd, field, arr) ==
  ElementField(h, field, SortBy(h, field, arr), QuantileIndex(Len(arr), qn, qd))

\* Ply.mean(field)(arr): Ply.sum(field)(arr) / arr.length
Divide(s, n) == IF s.ok THEN [s EXCEPT !.val = Ratio(s.val.n, n)] ELSE s
mean(h, field, arr) == Divide(sum(h, field, arr), Len(arr))

\* Math.max(...xs) and Math.min(...xs) of values xs already made numbers:
\* -Infinity and Infinity without arguments, NaN if an argument is NaN
MathMax(xs) ==
  IF xs = <<>> THEN NegInfinity
  ELSE IF \E i \in 1..Len(xs) : xs[i].k # "num" THEN NaN
  ELSE Num(CHOOSE m \in {xs[i].n : i \in 1..Len(xs)} : \A i \in 1..Len(xs) : xs[i].n <= m)
MathMin(xs) ==
  IF xs = <<>> THEN Infinity
  ELSE IF \E i \in 1..Len(xs) : xs[i].k # "num" THEN NaN
  ELSE Num(CHOOSE m \in {xs[i].n : i \in 1..Len(xs)} : \A i \in 1..Len(xs) : xs[i].n >= m)
\* Ply.max(field)(arr), Ply.min(field)(arr)
max(h, field, arr) ==
  [ok |-> TRUE, val |-> MathMax([i \in 1..Len(arr) |-> ToNumber(h[arr[i]][field])]), arr |-> arr]
min(h, field, arr) ==
  [ok |-> TRUE, val |-> MathMin([i \in 1..Len(arr) |-> ToNumber(h[arr[i]][field])]), arr |-> arr]

\* funcs[field](arr) for an array; arr in the result is the array after the call
ApplyAgg(agg, h, arr) ==
  CASE agg.t = "count" -> [ok |-> TRUE, val |-> Num(Len(arr)), arr |-> arr]
    [] agg.t = "sum" -> sum(h, agg.field, arr)
    [] agg.t = "mean" -> mean(h, agg.field, arr)
    [] agg.t = "max" -> max(h, agg.field, arr)
    [] agg.t = "min" -> min(h, agg.field, arr)
    [] agg.t = "quantile" -> quantile(h, agg.qn, agg.qd, agg.field, arr)
    [] OTHER -> [ok |-> TRUE, val |-> agg.val, arr |-> arr]

\* funcs[field](o) for an object that is not an array (no length, no map, no
\* sort): arr.length is undefined, arr.map(...) and arr.sort(...) throw
ApplyAggNonArray(agg) ==
  CASE agg.t = "count" -> [ok |-> TRUE, val |-> Undefined]
    [] agg.t = "lit" -> [ok |-> TRUE, val |-> agg.val]
    [] OTHER -> [ok |-> FALSE, val |-> Undefined]

(***************************************************************************)
(* The deferred steps: the closures pushed on this.funcs.                  *)
(***************************************************************************)
GroupF(f) == [op |-> "group", f |-> f, fn |-> "", step |-> "", spec |-> <<>>]
MapF(fn, st) == [op |-> "map", f |-> <<>>, fn |-> fn, step |-> st, spec |-> <<>>]
FilterF(fn) == [op |-> "filter", f |-> <<>>, fn |-> fn, step |-> "", spec |-> <<>>]
PlainReducerF(spec) == [op |-> "plainReducer", f |-> <<>>, fn |-> "", step |-> "", spec |-> spec]
GroupReducerF(spec) == [op |-> "groupReducer", f |-> <<>>, fn |-> "", step |-> "", spec |-> spec]

Throw(R) == [R EXCEPT !.ok = FALSE]

FacetFirstField(f, rec) == IF f = <<>> THEN "" ELSE JoinStr(rec[f[1]])
\* f.map(fi => v[fi]).join(Ply.SEPARATOR)
Facet(f, rec) == Join([j \in 1..Len(f) |-> rec[f[j]]], SEPARATOR)

\* The accumulator o of the group step is a plain object {} used as a map:
\* (keys, at) are its own properties. Two keys are not ordinary:
\*   "__proto__"       o['__proto__'] = [] calls the setter inherited from
\*                     Object.prototype: it makes the array the prototype of
\*                     o and adds no own property, so hasOwnProperty stays
\*                     false, every record of that signature replaces the
\*                     prototype by a new array and is pushed on it, and
\*                     Object.keys never lists it
\*   "hasOwnProperty"  once o has an own property of that name (an array),
\*                     o.hasOwnProperty(...) calls an array and throws
PROTO == "__proto__"
HAS_OWN_PROPERTY == "hasOwnProperty"

EnsureKeyAlways(o, facet) ==
  IF facet = PROTO THEN o
  ELSE IF Contains(o.keys, facet) THEN [o EXCEPT !.at[facet] = <<>>]
  ELSE [o EXCEPT !.keys = Append(@, facet), !.at = @ @@ (facet :> <<>>)]
\* if (!o.hasOwnProperty(facet)) o[facet] = []
EnsureKey(o, facet) ==
  IF facet = PROTO \/ Contains(o.keys, facet) THEN o
  ELSE [o EXCEPT !.keys = Append(@, facet), !.at = @ @@ (facet :> <<>>)]
\* o[facet].push(v)
Push(o, facet, v) ==
  IF facet = PROTO THEN o
  ELSE [o EXCEPT !.at[facet] = Append(@, v)]

RECURSIVE GroupFold(_, _, _, _, _)
\* data.reduce((o, v) => {...}, {}) from element i on, o = (keys, at, ok);
\* ok is FALSE once the callback has thrown
GroupFold(h, f, arr, i, o) ==
  IF i > Len(arr) THEN o
  ELSE IF Contains(o.keys, HAS_OWN_PROPERTY) THEN [o EXCEPT !.ok = FALSE]
  ELSE GroupFold(h, f, arr, i + 1, Push(EnsureKey(o, Facet(f, h[arr[i]])), Facet(f, h[arr[i]]), arr[i]))

\* the run after the reduce call of the group step returned o or threw
Grouped(R, o) == IF o.ok THEN [R EXCEPT !.w = AsGrpVal(o)] ELSE Throw(R)

\* the step pushed by group(...f); an object that is not an array has no
\* reduce method, calling it throws
GroupStep(f, R) ==
  IF R.w.shape # "arr" THEN Throw(R)
  ELSE Grouped(R, GroupFold(R.h, f, R.w.arr, 1, [keys |-> <<>>, at |-> <<>>, ok |-> TRUE]))

RECURSIVE MapArr(_, _, _, _)
\* the heap after arr.map(mapper), the mapper called on the elements in order
MapArr(fn, h, arr, i) ==
  IF i > Len(arr) THEN h
  ELSE MapArr(fn, MapperHeap(fn, h, arr[i]), arr, i + 1)

RECURSIVE MapGroups(_, _, _, _, _)
\* Object.keys(data).forEach(facets => { data[facets] = data[facets].map(mapper) })
MapGroups(fn, h, at, ks, i) ==
  IF i > Len(ks) THEN h
  ELSE MapGroups(fn, MapArr(fn, h, at[ks[i]], 1), at, ks, i + 1)

\* the step pushed by map(mapper), st the value of this.step when map was
\* called.  The mappers return the record they were given, so the mapped
\* array has the elements of the array it was made from.
MapStep(fn, st, R) ==
  IF st = STEPS_GROUP
  THEN IF R.w.shape = "grp"
       THEN [R EXCEPT !.h = MapGroups(fn, R.h, R.w.at, ObjectKeys(R.w.keys), 1)]
       \* Object.keys of an array are its indices; data[0] is a record and
       \* has no map method
       ELSE IF R.w.arr = <<>> THEN R ELSE Throw(R)
  ELSE IF R.w.shape = "arr"
       THEN [R EXCEPT !.h = MapArr(fn, R.h, R.w.arr, 1), !.w = ArrVal(R.w.arr, FALSE)]
       ELSE Throw(R)

\* the step pushed by filter(fcn)
FilterStep(fn, R) ==
  IF R.w.shape = "arr"
  THEN [R EXCEPT !.w = ArrVal(SelectSeq(R.w.arr, LAMBDA ad : PredHolds(fn, R.h[ad])), FALSE)]
  ELSE Throw(R)

\* datapoint[field] = r.val, where r is what the call of funcs[field] gave
SetField(dp, field, r) == [ok |-> r.ok, dp |-> [dp EXCEPT ![field] = r.val], arr |-> r.arr]

RECURSIVE reduceData(_, _, _, _, _)
\* reduceData(arr) for an array: the spec entries from entry i on, in the
\* order of Object.keys(funcs); acc = [ok, dp, arr] holds the datapoint so
\* far and the array as the aggregators called so far left it
reduceData(spec, h, i, acc, isArray) ==
  IF i > Len(spec) \/ ~acc.ok THEN acc
  ELSE reduceData(spec, h, i + 1,
                  SetField(acc.dp, spec[i].key,
                           IF isArray THEN ApplyAgg(spec[i].agg, h, acc.arr)
                           ELSE ApplyAggNonArray(spec[i].agg) @@ [arr |-> acc.arr]),
                  isArray)

\* return [reduceData(data)]
\* rd is what reduceData(data) gave; when data is the this.data array
\* itself, an aggregator that sorted it has sorted this.data
WrapDatapoint(R, rd, d1) ==
  IF ~rd.ok THEN Throw([R EXCEPT !.d = d1])
  ELSE [R EXCEPT !.h = Append(R.h, rd.dp), !.d = d1, !.w = ArrVal(<<Len(R.h) + 1>>, FALSE)]
PlainResult(R, rd) ==
  WrapDatapoint(R, rd, IF R.w.shape = "arr" /\ R.w.src THEN rd.arr ELSE R.d)
plainReducerSkipEmpty(spec, R) ==
  IF R.w.shape = "arr" /\ R.w.arr = <<>> THEN R
  ELSE PlainResult(R, reduceData(spec, R.h, 1, [ok |-> TRUE, dp |-> EmptyObj, arr |-> R.w.arr],
                                 R.w.shape = "arr"))
plainReducer(spec, R) ==
  PlainResult(R, reduceData(spec, R.h, 1, [ok |-> TRUE, dp |-> EmptyObj, arr |-> R.w.arr],
                            R.w.shape = "arr"))

RECURSIVE StampFacets(_, _, _, _)
\* this.facets.forEach(f => { datapoint[f] = dataGrouping[0][f] })
StampFacets(fs, i, dp, first) ==
  IF i > Len(fs) THEN dp
  ELSE StampFacets(fs, i + 1, [dp EXCEPT ![fs[i]] = first[fs[i]]], first)

\* newData.push(Object.assign({}, datapoint))
PushCopy(acc, dp) ==
  [ok |-> TRUE, h |-> Append(acc.h, dp), out |-> Append(acc.out, Len(acc.h) + 1)]
\* the body of the loop after rd = reduceData(dataGrouping): stamp the facets
\* from dataGrouping[0] (reading a field of the undefined dataGrouping[0] of
\* an empty array throws) and push the datapoint
PushDatapoint(fs, acc, rd) ==
  IF ~rd.ok \/ (fs # <<>> /\ rd.arr = <<>>) THEN [acc EXCEPT !.ok = FALSE]
  ELSE PushCopy(acc, IF fs = <<>> THEN rd.dp ELSE StampFacets(fs, 1, rd.dp, acc.h[rd.arr[1]]))

RECURSIVE GroupReduceFold(_, _, _, _, _, _)
\* Object.keys(data).forEach(gr => {...}) over a grouped object, from key i
\* on; acc = [ok, h, out]: the heap and newData so far.  fs is this.facets,
\* read when the step runs.
GroupReduceFold(spec, fs, at, ks, i, acc) ==
  IF i > Len(ks) \/ ~acc.ok THEN acc
  ELSE GroupReduceFold(spec, fs, at, ks, i + 1,
                       PushDatapoint(fs, acc,
                                     reduceData(spec, acc.h, 1,
                                                [ok |-> TRUE, dp |-> EmptyObj, arr |-> at[ks[i]]],
                                                TRUE)))

RECURSIVE GroupReduceArrayFold(_, _, _, _, _)
\* the same loop when data is an array: the keys are its indices and each
\* dataGrouping is a record, which has no length, map or sort, and whose
\* property 0 is undefined
GroupReduceArrayFold(spec, fs, arr, i, acc) ==
  IF i > Len(arr) \/ ~acc.ok THEN acc
  ELSE GroupReduceArrayFold(spec, fs, arr, i + 1,
                            PushDatapoint(fs, acc,
                                          reduceData(spec, acc.h, 1,
                                                     [ok |-> TRUE, dp |-> EmptyObj, arr |-> <<>>],
                                                     FALSE)))

\* the groupReducer closure
\* data = newData; return data
GroupResult(R, acc) ==
  IF ~acc.ok THEN Throw(R) ELSE [R EXCEPT !.h = acc.h, !.w = ArrVal(acc.out, FALSE)]
groupReducer(spec, fs, R) ==
  GroupResult(R, IF R.w.shape = "grp"
                 THEN GroupReduceFold(spec, fs, R.w.at, ObjectKeys(R.w.keys), 1,
                                      [ok |-> TRUE, h |-> R.h, out |-> <<>>])
                 ELSE GroupReduceArrayFold(spec, fs, R.w.arr, 1,
                                           [ok |-> TRUE, h |-> R.h, out |-> <<>>]))

(***************************************************************************)
(* transform: copy the data, run the deferred steps in order.              *)
(***************************************************************************)
\* what a caller sees of a working value: the records by value, and the keys
\* of a grouped object in the order Object.keys lists them
Snapshot(h, w) ==
  [shape |-> w.shape,
   arr |-> [i \in 1..Len(w.arr) |-> h[w.arr[i]]],
   keys |-> ObjectKeys(w.keys),
   at |-> [key \in DOMAIN w.at |-> [i \in 1..Len(w.at[key]) |-> h[w.at[key][i]]]]]
NoValue == [shape |-> "none", arr |-> <<>>, keys |-> <<>>, at |-> <<>>]

\* this.data.map(d => d): a new array of the same records
CopyDataSameRecords(h0, d, i, acc) == [h |-> acc.h, arr |-> d]

RECURSIVE CopyData(_, _, _, _)
\* this.data.map(d => Object.assign({}, d)): a new array of new records,
\* from element i on; acc = [h, arr]
CopyData(h0, d, i, acc) ==
  IF i > Len(d) THEN acc
  ELSE CopyData(h0, d, i + 1,
                [h |-> Append(acc.h, h0[d[i]]), arr |-> Append(acc.arr, Len(acc.h) + 1)])

\* let newData = this.data.map(d => Object.assign({}, d))
\* let newData = this.data
StartRunOnData(c, d) == [h |-> c.h, d |-> d, w |-> ArrVal(d, TRUE), ok |-> TRUE]
StartRun(c, d) == [h |-> c.h, d |-> d, w |-> ArrVal(c.arr, FALSE), ok |-> TRUE]
NewData(h, d) == StartRun(CopyData(h, d, 1, [h |-> h, arr |-> <<>>]), d)

\* newData = d(newData) for one deferred step d
ApplyStep(fn, thisFacets, R) ==
  CASE fn.op = "group" -> GroupStep(fn.f, R)
    [] fn.op = "map" -> MapStep(fn.fn, fn.step, R)
    [] fn.op = "filter" -> FilterStep(fn.fn, R)
    [] fn.op = "plainReducer" -> plainReducer(fn.spec, R)
    [] OTHER -> groupReducer(fn.spec, thisFacets, R)

StepOrderReversed(n) == [i \in 1..n |-> n + 1 - i]
\* the order in which this.funcs.forEach visits the n steps
StepOrder(n) == [i \in 1..n |-> i]

\* step k was called and left the run R1
Ran(acc, k, R1) ==
  [R |-> R1,
   trace |-> IF R1.ok THEN Append(acc.trace, Snapshot(R1.h, R1.w)) ELSE acc.trace,
   ran |-> Append(acc.ran, k)]
Started(R0) == [R |-> R0, trace |-> <<Snapshot(R0.h, R0.w)>>, ran |-> <<>>]

RECURSIVE RunSteps(_, _, _, _, _)
\* this.funcs.forEach(d => { newData = d(newData) }), from position i of the
\* visiting order on; acc = [R, trace, ran]: the run, the working values
\* after the copy and after each step that returned, and the steps called
RunSteps(fs, thisFacets, order, i, acc) ==
  IF i > Len(order) \/ ~acc.R.ok THEN acc
  ELSE RunSteps(fs, thisFacets, order, i + 1,
                Ran(acc, order[i], ApplyStep(fs[order[i]], thisFacets, acc.R)))

(***************************************************************************)
(* The pipeline object.                                                    *)
(*   heap, data   the records given to the constructor and the this.data   *)
(*                array (addresses into heap)                              *)
(*   funcs, step, facets   the fields of the Ply object                    *)
(*   last, ret    the last method called and what it returned or threw     *)
(*   trace, ran   for the last call: the working values after the copy and *)
(*                after each step, and the deferred steps it called        *)
(*   again        the last two calls were both transform                   *)
(*   arg          the argument of a call made on no pipeline: of the       *)
(*                constructor, or of a group step or an aggregator called  *)
(*                on an array                                              *)
(***************************************************************************)
VARIABLES heap, data, funcs, step, facets, last, ret, trace, ran, again, arg
vars == <<heap, data, funcs, step, facets, last, ret, trace, ran, again, arg>>

This == [kind |-> "this", val |-> NoValue]
Thrown == [kind |-> "throw", val |-> NoValue]
Value(v) == [kind |-> "value", val |-> v]
NoArg == [t |-> "none"]

\* the arguments the model passes to group and reduce
\*   {n: arr => arr.length, v: Ply.sum('v')}
\*   {v: Ply.median('v'), a: arr => arr.length, b: 0}
FacetLists == {<<"a">>, <<"b">>, <<"a", "b">>}
Specs ==
  { << [key |-> "n", agg |-> Count], [key |-> "v", agg |-> Sum("v")] >>,
    << [key |-> "v", agg |-> Median("v")], [key |-> "a", agg |-> Count],
       [key |-> "b", agg |-> Lit(Num(0))] >> }

\* constructor(data): data is an array of plain objects
Init ==
  \E src \in SeqsUpTo(Pool, MaxLen) :
    /\ heap = src
    /\ data = [i \in 1..Len(src) |-> i]
    /\ funcs = <<>>
    /\ step = STEPS_DATASET
    /\ facets = <<>>
    /\ last = "new"
    /\ ret = This
    /\ trace = <<>>
    /\ ran = <<>>
    /\ again = FALSE
    /\ arg = NoArg

\* what a chain-building call leaves of the bookkeeping of the last call
Built(name, r) ==
  /\ last' = name
  /\ ret' = r
  /\ trace' = <<>>
  /\ ran' = <<>>
  /\ again' = FALSE
  /\ UNCHANGED arg

resetKeepsStep ==
  /\ funcs' = <<>>
  /\ Built("reset", This)
  /\ UNCHANGED <<heap, data, facets, step>>

reset ==
  /\ funcs' = <<>>
  /\ step' = STEPS_DATASET
  /\ Built("reset", This)
  /\ UNCHANGED <<heap, data, facets>>

group ==
  \E f \in FacetLists :
    /\ Len(funcs) < MaxSteps
    /\ funcs' = Append(funcs, GroupF(f))
    /\ facets' = f
    /\ step' = STEPS_GROUP
    /\ Built("group", This)
    /\ UNCHANGED <<heap, data>>

\* map has no check of this.step: the closure keeps the value this.step had
map ==
  \E mapper \in Mappers :
    /\ Len(funcs) < MaxSteps
    /\ funcs' = Append(funcs, MapF(mapper, step))
    /\ step' = STEPS_DATASET
    /\ Built("map", This)
    /\ UNCHANGED <<heap, data, facets>>

FilterAllowedAlways(st) == TRUE
\* if (this.step != STEPS.DATASET) throw TypeError(...)
FilterAllowed(st) == st = STEPS_DATASET

filter ==
  \E fcn \in Preds :
    IF FilterAllowed(step)
    THEN /\ Len(funcs) < MaxSteps
         /\ funcs' = Append(funcs, FilterF(fcn))
         /\ Built("filter", This)
         /\ UNCHANGED <<heap, data, step, facets>>
    ELSE /\ Built("filter", Thrown)
         /\ UNCHANGED <<heap, data, funcs, step, facets>>

\* let reducer = this.step === STEPS.DATASET ? plainReducer : groupReducer
Reducer(st, spec) == IF st = STEPS_DATASET THEN PlainReducerF(spec) ELSE GroupReducerF(spec)

reduce ==
  \E spec \in Specs :
    /\ Len(funcs) < MaxSteps
    /\ funcs' = Append(funcs, Reducer(step, spec))
    /\ step' = STEPS_DATASET
    /\ Built("reduce", This)
    /\ UNCHANGED <<heap, data, facets>>

transformResetsStep ==
  \E run \in {RunSteps(funcs, facets, StepOrder(Len(funcs)), 1, Started(NewData(heap, data)))} :
    /\ heap' = SubSeq(run.R.h, 1, Len(heap))
    /\ data' = run.R.d
    /\ step' = STEPS_DATASET
    /\ ret' = IF run.R.ok THEN Value(run.trace[Len(run.trace)]) ELSE Thrown
    /\ trace' = run.trace
    /\ ran' = run.ran
    /\ last' = "transform"
    /\ again' = (last = "transform")
    /\ UNCHANGED <<funcs, facets, arg>>

\* a step that throws leaves this.step as it was and transform returns
\* nothing; the records the run allocated live on only in the value returned
transform ==
  \E run \in {RunSteps(funcs, facets, StepOrder(Len(funcs)), 1, Started(NewData(heap, data)))} :
    /\ heap' = SubSeq(run.R.h, 1, Len(heap))
    /\ data' = run.R.d
    /\ step' = IF run.R.ok THEN STEPS_DATASET ELSE step
    /\ ret' = IF run.R.ok THEN Value(run.trace[Len(run.trace)]) ELSE Thrown
    /\ trace' = run.trace
    /\ ran' = run.ran
    /\ last' = "transform"
    /\ again' = (last = "transform")
    /\ UNCHANGED <<funcs, facets, arg>>

Next == reset \/ group \/ map \/ filter \/ reduce \/ transform

Spec == Init /\ [][Next]_vars

(***************************************************************************)
(* The claims.                                                             *)
(***************************************************************************)

\* C1: whenever the mode is GROUPED, a call of map fails at the call itself
\* and appends no deferred step.
C1_MapFailsWhenGrouped ==
  [][(step = STEPS_GROUP /\ last' = "map") => (ret' = Thrown /\ funcs' = funcs)]_vars

\* C2: a call of filter in mode GROUPED throws at the call, runs nothing and
\* leaves the deferred steps, the mode and the facets as they were; in mode
\* FLAT it returns the pipeline, appends exactly one step and keeps the mode.
C2_FilterFailsFast ==
  [][last' = "filter" =>
       IF step = STEPS_GROUP
       THEN ret' = Thrown /\ ran' = <<>> /\ UNCHANGED <<funcs, step, facets>>
       ELSE /\ ret' = This
            /\ Len(funcs') = Len(funcs) + 1
            /\ SubSeq(funcs', 1, Len(funcs)) = funcs
            /\ funcs'[Len(funcs')].op = "filter"
            /\ UNCHANGED <<step, facets>>]_vars
\* filter was called right after group and threw
C2_Witness ==
  /\ last = "filter" /\ ret = Thrown /\ step = STEPS_GROUP
  /\ funcs # <<>> /\ funcs[Len(funcs)].op = "group"

(***************************************************************************)
(* What the claims speak of, stated on sequences of records.               *)
(***************************************************************************)
\* the records given to the constructor, in order
Source == [i \in 1..Len(data) |-> heap[data[i]]]
\* an aggregator (or literal) applied to a sequence of records
AggOf(agg, recs) == ApplyAgg(agg, recs, [i \in 1..Len(recs) |-> i])
\* the records of recs whose facet signature is sig, in the order of recs
GroupOf(f, recs, sig) == SelectSeq(recs, LAMBDA r : Facet(f, r) = sig)
Signatures(f, recs) == {Facet(f, recs[i]) : i \in 1..Len(recs)}
InSeq(q) == {q[i] : i \in 1..Len(q)}

\* r is the output record of the group g: the spec entries with a key in
\* `keys` hold the aggregator applied to g (or the literal), and every facet
\* field holds the value of the group
IsGroupRecord(r, f, spec, keys, g) ==
  /\ \A j \in 1..Len(spec) :
       spec[j].key \in keys => AggOf(spec[j].agg, g).ok /\ r[spec[j].key] = AggOf(spec[j].agg, g).val
  /\ \A j \in 1..Len(f) : r[f[j]] = g[1][f[j]]

\* the value returned is a sequence with exactly one record for every facet
\* signature of the source
OnePerSignature(out, f, spec, keys) ==
  /\ out.shape = "arr"
  /\ Len(out.arr) = Cardinality(Signatures(f, Source))
  /\ \A sig \in Signatures(f, Source) :
       Cardinality({i \in 1..Len(out.arr) :
                      IsGroupRecord(out.arr[i], f, spec, keys, GroupOf(f, Source, sig))}) = 1

\* the chain is group(f).reduce(spec) and transform has just been called
GroupReduceTransformed ==
  /\ last = "transform"
  /\ Len(funcs) = 2
  /\ funcs[1].op = "group"
  /\ funcs[2].op = "groupReducer"

RECURSIVE DiscoveryOrder(_, _, _)
\* the facet signatures of recs in the order in which they are first seen
DiscoveryOrder(f, recs, seen) ==
  IF recs = <<>> THEN seen
  ELSE DiscoveryOrder(f, Tail(recs),
                      IF Contains(seen, Facet(f, recs[1])) THEN seen
                      ELSE Append(seen, Facet(f, recs[1])))

\* C4: the records of group(facets).reduce(spec).transform() come in group
\* discovery order: the i-th record carries the facet values of the group
\* whose signature is the i-th to be first seen in the input.
C4_DiscoveryOrder ==
  GroupReduceTransformed /\ ret.kind = "value" =>
    LET f == funcs[1].f
        order == DiscoveryOrder(f, Source, <<>>)
    IN /\ Len(ret.val.arr) = Len(order)
       /\ \A i \in 1..Len(order) : \A j \in 1..Len(f) :
            ret.val.arr[i][f[j]] = GroupOf(f, Source, order[i])[1][f[j]]

\* C5: every grouped reduce stamps its output records with the facet fields
\* of the group call that immediately precedes it in the chain: the k-th
\* record it returns carries, for each of those fields, the value of the
\* k-th group it was given.
C5_StampsPrecedingGroup ==
  last = "transform" =>
    \A i \in 1..(Len(funcs) - 1) :
      (funcs[i].op = "group" /\ funcs[i + 1].op = "groupReducer" /\ Len(trace) >= i + 2) =>
        \A k \in 1..Len(trace[i + 2].arr) : \A j \in 1..Len(funcs[i].f) :
          trace[i + 2].arr[k][funcs[i].f[j]]
            = trace[i + 1].at[trace[i + 1].keys[k]][1][funcs[i].f[j]]

\* C6: a reduce appended in mode FLAT, given a sequence of records of any
\* length (the empty one included), returns a sequence of exactly one record
\* holding, for each spec key, the aggregator applied to the whole sequence
\* (or the literal) and nothing else; it returns whenever no aggregator of the
\* spec throws on that sequence.
C6_FlatReduce ==
  last = "transform" =>
    \A i \in 1..Len(funcs) :
      (funcs[i].op = "plainReducer" /\ Len(trace) >= i /\ trace[i].shape = "arr") =>
        LET spec == funcs[i].spec
            given == trace[i].arr
            allOk == \A j \in 1..Len(spec) : AggOf(spec[j].agg, given).ok
        IN /\ allOk => Len(trace) > i
           /\ Len(trace) > i =>
                /\ trace[i + 1].shape = "arr"
                /\ Len(trace[i + 1].arr) = 1
                /\ \A j \in 1..Len(spec) :
                     trace[i + 1].arr[1][spec[j].key] = AggOf(spec[j].agg, given).val
                /\ \A fld \in Fields \ {spec[j].key : j \in 1..Len(spec)} :
                     trace[i + 1].arr[1][fld] = Undefined
\* a flat reduce was given the empty sequence and returned one record
C6_Witness ==
  /\ last = "transform"
  /\ \E i \in 1..Len(funcs) :
       /\ funcs[i].op = "plainReducer"
       /\ Len(trace) > i
       /\ trace[i].shape = "arr" /\ trace[i].arr = <<>>
       /\ Len(trace[i + 1].arr) = 1

HasOp(op) == \E i \in 1..Len(funcs) : funcs[i].op = op

\* C7: a transform called right after a transform returns (or throws) what
\* the first one did, with the same working value after every step, and
\* leaves the deferred step list as it was.
C7_TransformTwice ==
  [][(last = "transform" /\ last' = "transform") =>
       (ret' = ret /\ trace' = trace /\ ran' = ran /\ funcs' = funcs)]_vars
\* transform was called twice in a row on a chain with a map and a reduce
C7_Witness ==
  /\ again /\ last = "transform" /\ ret.kind = "value"
  /\ HasOp("map") /\ HasOp("plainReducer")
  /\ Source # <<>>

\* C8: no call changes the source: the this.data array keeps its elements in
\* their order and every record of it keeps its fields and values.
C8_SourceUnchanged == [][heap' = heap /\ data' = data]_vars
\* transform ran a map step that wrote fields of the records it was given, and
\* returned records that differ from the source records
C8_Witness ==
  /\ last = "transform" /\ ret.kind = "value" /\ ret.val.shape = "arr"
  /\ Len(funcs) = 1 /\ funcs[1].op = "map"
  /\ Source # <<>>
  /\ \A i \in 1..Len(Source) :
       /\ Source[i]["b"] = Undefined
       /\ ret.val.arr[i]["b"] = Source[i]["a"]
       /\ ret.val.arr[i]["v"] = Plus1(Source[i]["v"])

\* C9: reset empties the deferred step list, sets the mode to FLAT and
\* returns the pipeline; a transform called right after it returns the source
\* records in their order, and a filter or a map called right after it
\* succeeds.
C9_Reset ==
  [][/\ last' = "reset" => (funcs' = <<>> /\ step' = STEPS_DATASET /\ ret' = This)
     /\ (last = "reset" /\ last' = "transform") =>
          ret' = Value([shape |-> "arr", arr |-> Source, keys |-> <<>>, at |-> <<>>])
     /\ (last = "reset" /\ last' \in {"filter", "map"}) =>
          (ret' = This /\ Len(funcs') = 1)]_vars
\* filter was called after group and reset, and succeeded
C9_Witness ==
  /\ last = "filter" /\ ret = This
  /\ Len(funcs) = 1
  /\ facets # <<>>

ChainBuilders == {"reset", "group", "map", "filter", "reduce"}

\* C10: a chain-building call runs no deferred step and so calls no mapper,
\* predicate or aggregator, and returns the pipeline (or throws, for filter);
\* transform calls the deferred steps once each in the order they were
\* appended, stopping at a step that throws.
C10_Deferred ==
  /\ last \in ChainBuilders =>
       /\ ran = <<>> /\ trace = <<>>
       /\ ret = This \/ (last = "filter" /\ ret = Thrown)
  /\ last = "transform" =>
       /\ Len(ran) <= Len(funcs)
       /\ \A i \in 1..Len(ran) : ran[i] = i
       /\ ret.kind = "value" => Len(ran) = Len(funcs)
       /\ ret.kind = "throw" => Len(trace) = Len(ran)
\* transform ran three steps in order after they were appended unrun
C10_Witness ==
  /\ last = "transform" /\ ret.kind = "value"
  /\ ran = <<1, 2, 3>>
  /\ funcs[1].op = "map" /\ funcs[2].op = "filter" /\ funcs[3].op = "plainReducer"

\* C11: transform always returns a flat sequence of records, never a mapping
\* from facet signature to records, whatever chain was built (a chain ending
\* in group, or in group followed by map, included).
C11_ReturnsSequence ==
  (last = "transform" /\ ret.kind = "value") => ret.val.shape = "arr"

\* the deferred step at which the last transform stopped, once it threw
FailedStep == funcs[ran[Len(ran)]]

\* every aggregator of spec returns when applied to the records recs
ReduceOk(spec, recs) == \A j \in 1..Len(spec) : AggOf(spec[j].agg, recs).ok

\* C12: a deferred step that fails does so at the transform call, not at the
\* reduce call that appended it (which returns the pipeline and runs
\* nothing); a flat reduce one of whose aggregators fails stops the
\* transform there; the failing transform returns nothing, and leaves the
\* source, the deferred steps, the facets and the mode as they were.
C12_FailsAtTransform ==
  [][/\ last' = "reduce" => (ret' = This /\ ran' = <<>>)
     /\ last' = "transform" =>
          \A i \in 1..Len(ran') :
            (funcs[i].op = "plainReducer" /\ trace'[i].shape = "arr"
               /\ ~ReduceOk(funcs[i].spec, trace'[i].arr))
            => (ret' = Thrown /\ Len(ran') = i)
     /\ (last' = "transform" /\ ret'.kind # "value") =>
          /\ ret' = Thrown
          /\ ran' # <<>>
          /\ UNCHANGED <<heap, data, funcs, step, facets>>]_vars
\* transform threw inside a flat reduce that was handed an array (one of its
\* aggregators failed), a later group call having left the mode GROUPED
C12_Witness ==
  /\ last = "transform" /\ ret = Thrown
  /\ step = STEPS_GROUP
  /\ FailedStep.op = "plainReducer"
  /\ trace[Len(ran)].shape = "arr"
  /\ Len(funcs) > Len(ran)

\* the run of the current deferred steps over the current source
Replay == RunSteps(funcs, facets, StepOrder(Len(funcs)), 1, Started(NewData(heap, data))).R

\* C18: in every reachable state the mode flag is GROUPED exactly when
\* replaying the deferred steps leaves a mapping from facet signature to
\* records, and FLAT exactly when it leaves a flat sequence; neither map nor
\* transform makes the flag disagree with that shape.
C18_ModeMatchesShape ==
  Replay.ok => (step = STEPS_GROUP <=> Replay.w.shape = "grp")

\* C19: transform hands every deferred step the shape it expects: a group
\* step, a filter step and a flat reduce get a flat sequence of records, a
\* grouped reduce gets a mapping from facet signature to records.
C19_StepsGetTheirShape ==
  last = "transform" =>
    \A i \in 1..Len(ran) :
      /\ funcs[i].op \in {"group", "filter", "plainReducer"} => trace[i].shape = "arr"
      /\ funcs[i].op = "groupReducer" => trace[i].shape = "grp"

\* C20: in a grouped reduce whose spec has a key equal to a facet field of
\* the group call before it, every output record holds under that key the
\* value the field has in the first record of its group, not what the spec
\* entry computed.
C20_FacetOverridesSpecKey ==
  last = "transform" =>
    \A i \in 1..(Len(funcs) - 1) :
      (funcs[i].op = "group" /\ funcs[i + 1].op = "groupReducer" /\ Len(trace) >= i + 2) =>
        \A k \in 1..Len(trace[i + 2].arr) :
          \A fld \in InSeq(funcs[i].f) \cap {funcs[i + 1].spec[j].key : j \in 1..Len(funcs[i + 1].spec)} :
            /\ k <= Len(trace[i + 1].keys)
            /\ trace[i + 2].arr[k][fld] = trace[i + 1].at[trace[i + 1].keys[k]][1][fld]

(***************************************************************************)
(* The group step on its own: the function pushed by group(...f), called   *)
(* on an array of records.                                                 *)
(***************************************************************************)
RecAB(a, b) == [EmptyObj EXCEPT !["a"] = a, !["b"] = b]
\* records whose facet fields hold strings with and without the character
\* of the separator, a number and its string form, a missing value, and the
\* two keys that are not ordinary on a plain object
GroupPool ==
  { RecAB(StrV("x"), StrV("y")), RecAB(StrV("x|"), StrV("y")), RecAB(StrV("x"), StrV("|y")),
    RecAB(StrV("x"), Undefined), RecAB(Num(1), StrV("y")), RecAB(StrV("1"), StrV("y")),
    RecAB(StrV(PROTO), Undefined), RecAB(StrV(HAS_OWN_PROPERTY), Undefined) }
GroupFacetLists == {<<>>, <<"a">>, <<"b">>, <<"a", "b">>}
GroupArg(f) == [t |-> "group", f |-> f]

\* the run of a function called on the array arr itself
OnArray(h, arr) == [h |-> h, d |-> arr, w |-> ArrVal(arr, TRUE), ok |-> TRUE]

InitGroup ==
  \E src \in SeqsUpTo(GroupPool, MaxLen) :
    /\ heap = src
    /\ data = [i \in 1..Len(src) |-> i]
    /\ funcs = <<>>
    /\ step = STEPS_DATASET
    /\ facets = <<>>
    /\ last = "new"
    /\ ret = This
    /\ trace = <<>>
    /\ ran = <<>>
    /\ again = FALSE
    /\ arg = NoArg

\* (data => data.reduce(..., {}))(arr) for the f of a group(...f) call
groupStep ==
  \E f \in GroupFacetLists :
    \E R \in {GroupStep(f, OnArray(heap, data))} :
      /\ last = "new"
      /\ arg' = GroupArg(f)
      /\ last' = "groupStep"
      /\ ret' = IF R.ok THEN Value(Snapshot(R.h, R.w)) ELSE Thrown
      /\ heap' = R.h
      /\ data' = R.d
      /\ UNCHANGED <<funcs, step, facets, trace, ran, again>>

SpecGroup == InitGroup /\ [][groupStep]_vars

\* C14: the group step partitions its input: the groups are keyed by the
\* facet signatures of the input records, one group per signature, and the
\* group of a signature holds exactly the input records of that signature,
\* each once, in their input order; with an empty facet list a non-empty
\* input makes one group, keyed by the empty string, holding every record.
C14_GroupPartitions ==
  last = "groupStep" =>
    /\ ret.kind = "value"
    /\ ret.val.shape = "grp"
    /\ \A i, j \in 1..Len(ret.val.keys) : ret.val.keys[i] = ret.val.keys[j] => i = j
    /\ InSeq(ret.val.keys) = Signatures(arg.f, Source)
    /\ \A sig \in Signatures(arg.f, Source) : ret.val.at[sig] = GroupOf(arg.f, Source, sig)
    /\ (arg.f = <<>> /\ Source # <<>>) => (ret.val.keys = <<"">> /\ ret.val.at[""] = Source)

\* the string s contains the string sub
ContainsStr(s, sub) == \E i \in 1..(Len(s) - Len(sub) + 1) : SubSeq(s, i, i + Len(sub) - 1) = sub
\* no facet field of the record holds a value whose string form contains sub
FacetValuesFreeOf(f, rec, sub) == \A i \in 1..Len(f) : ~ContainsStr(JoinStr(rec[f[i]]), sub)
\* the group step put both records under one key
SameGroup(r1, r2) ==
  \E i \in 1..Len(ret.val.keys) :
    Contains(ret.val.at[ret.val.keys[i]], r1) /\ Contains(ret.val.at[ret.val.keys[i]], r2)
AgreeOnFacets(f, r1, r2) == \A i \in 1..Len(f) : JoinStr(r1[f[i]]) = JoinStr(r2[f[i]])

\* C15 (as claimed): two records whose facet values' string forms do not
\* contain the separator '||' are put in one group only if they agree on the
\* string form of every facet field.
C15_NoCollisionWithoutSeparator ==
  (last = "groupStep" /\ ret.kind = "value") =>
    \A i, j \in 1..Len(Source) :
      (/\ FacetValuesFreeOf(arg.f, Source[i], SEPARATOR)
       /\ FacetValuesFreeOf(arg.f, Source[j], SEPARATOR)
       /\ SameGroup(Source[i], Source[j]))
      => AgreeOnFacets(arg.f, Source[i], Source[j])

\* C15 (amended): two records whose facet values' string forms do not
\* contain the character '|' are put in one group only if they agree on the
\* string form of every facet field.
C15_NoCollisionWithoutBar ==
  (last = "groupStep" /\ ret.kind = "value") =>
    \A i, j \in 1..Len(Source) :
      (/\ FacetValuesFreeOf(arg.f, Source[i], "|")
       /\ FacetValuesFreeOf(arg.f, Source[j], "|")
       /\ SameGroup(Source[i], Source[j]))
      => AgreeOnFacets(arg.f, Source[i], Source[j])
\* two records with no '|' in their facet values that agree on the first of
\* two facet fields and differ on the second were put in two groups
C15_Witness ==
  /\ last = "groupStep" /\ ret.kind = "value"
  /\ arg.f = <<"a", "b">>
  /\ Len(Source) = 2
  /\ FacetValuesFreeOf(arg.f, Source[1], "|") /\ FacetValuesFreeOf(arg.f, Source[2], "|")
  /\ Source[1]["a"] = Source[2]["a"] /\ Source[1]["b"] # Source[2]["b"]
  /\ Len(ret.val.keys) = 2

(***************************************************************************)
(* The aggregators on their own: Ply.sum(field), Ply.mean(field), ...      *)
(* called on an array of records. heap and data are the records and the    *)
(* array, arg the aggregator and ret what the call returned.               *)
(***************************************************************************)
\* the longest array an aggregator is called on
MaxArr == 4
\* q of Ply.quantile(q, field) as qn / qd: 0, 1/4, 1/2, 3/4 and 1
Quantiles == {<<0, 1>>, <<1, 4>>, <<1, 2>>, <<3, 4>>, <<1, 1>>}
\* the field v of Pool holds numbers, its field a a string in one record;
\* the sort of Ply.quantile is only called on v, whose values the comparator
\* orders
Aggregators ==
  {Sum("v"), Sum("a"), Mean("v"), Max("v"), Min("v"), Median("v")}
  \cup {Quantile(q[1], q[2], "v") : q \in Quantiles}

InitAgg ==
  \E src \in SeqsUpTo(Pool, MaxArr) :
    /\ heap = src
    /\ data = [i \in 1..Len(src) |-> i]
    /\ funcs = <<>>
    /\ step = STEPS_DATASET
    /\ facets = <<>>
    /\ last = "new"
    /\ ret = This
    /\ trace = <<>>
    /\ ran = <<>>
    /\ again = FALSE
    /\ arg = NoArg

\* Ply.sum(field)(arr), Ply.quantile(q, field)(arr), ...: data is the array
\* arr itself, before and after the call
aggregate ==
  \E agg \in Aggregators :
    \E r \in {ApplyAgg(agg, heap, data)} :
      /\ arg' = agg
      /\ last' = "aggregate"
      /\ ret' = IF r.ok THEN Value(r.val) ELSE Thrown
      /\ data' = r.arr
      /\ UNCHANGED <<heap, funcs, step, facets, trace, ran, again>>

SpecAgg == InitAgg /\ [][aggregate]_vars

\* C16: every built-in aggregator leaves the array it is given as it was:
\* after the call the array holds the same records in the same order.
C16_AggregatorsPure ==
  [][last' = "aggregate" => (data' = data /\ heap' = heap)]_vars

\* the values of the field in the array
FieldValues(field) == [i \in 1..Len(data) |-> heap[data[i]][field].n]
\* x is the element of 0-based index k in the ascending sort of xs
IsAtSortedIndex(x, xs, k) ==
  /\ \E i \in 1..Len(xs) : xs[i] = x
  /\ Cardinality({i \in 1..Len(xs) : xs[i] < x}) <= k
  /\ Cardinality({i \in 1..Len(xs) : xs[i] <= x}) > k
\* floor(m * qn / qd) for m >= 0
FloorOf(m, qn, qd) == CHOOSE k \in 0..m : k * qd <= m * qn /\ m * qn < (k + 1) * qd

\* C17: on a non-empty array of n records with numeric values, quantile(q,
\* field) returns the value at index floor((n-1)*q) of the values sorted
\* ascending: the minimum for q = 0, the maximum for q = 1, the single value
\* for n = 1, and for the median of an even n the lower of the two middle
\* values.
C17_Quantile ==
  (last = "aggregate" /\ arg.t = "quantile" /\ data # <<>>) =>
    /\ ret.kind = "value" /\ ret.val.k = "num"
    /\ IsAtSortedIndex(ret.val.n, FieldValues(arg.field), FloorOf(Len(data) - 1, arg.qn, arg.qd))
    /\ arg.qn = 0 => \A i \in 1..Len(data) : ret.val.n <= FieldValues(arg.field)[i]
    /\ arg.qn = arg.qd => \A i \in 1..Len(data) : ret.val.n >= FieldValues(arg.field)[i]
    /\ Len(data) = 1 => ret.val.n = FieldValues(arg.field)[1]
    /\ (arg = Median(arg.field) /\ Len(data) % 2 = 0) =>
         IsAtSortedIndex(ret.val.n, FieldValues(arg.field), (Len(data) \div 2) - 1)
\* the median of four records given out of order (a 3 before a 1) is 2, the
\* lower of the two middle values
C17_Witness ==
  /\ last = "aggregate" /\ arg = Median("v")
  /\ Len(data) = 4
  /\ ret = Value(Num(2))
  /\ \E i, j \in 1..4 : i < j /\ heap[i]["v"] = Num(3) /\ heap[j]["v"] = Num(1)

(***************************************************************************)
(* The constructor on its own: new Ply(data) for arguments of every kind.  *)
(* Before the call (last = "none") there is no pipeline: its fields are    *)
(* unset.                                                                  *)
(***************************************************************************)
\* a nested object held as a field value, as in {a: {}}
ObjV == [k |-> "obj", n |-> 0, s |-> ""]
\* an element d of the argument: typeof d, whether it is null, the name of
\* d.constructor, and its fields when it is an object
Element(ty, isNull, ctor, rec) == [typeof |-> ty, isNull |-> isNull, ctor |-> ctor, rec |-> rec]
PlainElement(rec) == Element("object", FALSE, "Object", rec)
\* {a: 2, v: 1}, ..., 5, 'x', null, {a: {}, v: 1}, [1], new Date()
Elements ==
  {PlainElement(r) : r \in Pool}
  \cup { Element("number", FALSE, "Number", EmptyObj),
         Element("string", FALSE, "String", EmptyObj),
         Element("object", TRUE, "", EmptyObj),
         PlainElement(Rec(ObjV, Num(1))),
         Element("object", FALSE, "Array", EmptyObj),
         Element("object", FALSE, "Date", EmptyObj) }
DataArg(isArray, elems) == [t |-> "data", isArray |-> isArray, elems |-> elems]
\* arrays of up to MaxLen elements, and what is no array: undefined, 5, {a: 2, v: 1}
Args ==
  {DataArg(TRUE, es) : es \in SeqsUpTo(Elements, MaxLen)}
  \cup {DataArg(FALSE, <<e>>) : e \in { Element("undefined", FALSE, "", EmptyObj),
                                        Element("number", FALSE, "Number", EmptyObj),
                                        PlainElement(Rec(Num(2), Num(1))) }}

UNSET == "unset"
ThrownError(name) == [kind |-> "throw", val |-> NoValue, error |-> name]

\* typeof d == 'object' && d.constructor == Object; reading null.constructor
\* throws a TypeError
ElementCheck(e) ==
  IF e.typeof # "object" THEN "Error"
  ELSE IF e.isNull THEN "TypeError"
  ELSE IF e.ctor # "Object" THEN "Error"
  ELSE "ok"
\* data.forEach(d => {...}): the first element that does not pass throws
FirstFailure(elems) ==
  IF \A i \in 1..Len(elems) : ElementCheck(elems[i]) = "ok" THEN "ok"
  ELSE ElementCheck(elems[CHOOSE i \in 1..Len(elems) :
                            /\ ElementCheck(elems[i]) # "ok"
                            /\ \A j \in 1..(i - 1) : ElementCheck(elems[j]) = "ok"])
\* what the constructor throws, or "ok"
Validate(a) == IF ~a.isArray THEN "Error" ELSE FirstFailure(a.elems)

InitNew ==
  \E a \in Args :
    /\ arg = a
    /\ heap = <<>>
    /\ data = <<>>
    /\ funcs = <<UNSET>>
    /\ step = UNSET
    /\ facets = <<UNSET>>
    /\ last = "none"
    /\ ret = This
    /\ trace = <<>>
    /\ ran = <<>>
    /\ again = FALSE

\* new Ply(data)
construct ==
  /\ last = "none"
  /\ last' = "new"
  /\ IF Validate(arg) = "ok"
     THEN /\ heap' = [i \in 1..Len(arg.elems) |-> arg.elems[i].rec]
          /\ data' = [i \in 1..Len(arg.elems) |-> i]
          /\ step' = STEPS_DATASET
          /\ funcs' = <<>>
          /\ facets' = <<>>
          /\ ret' = This
     ELSE /\ ret' = ThrownError(Validate(arg))
          /\ UNCHANGED <<heap, data, step, funcs, facets>>
  /\ UNCHANGED <<arg, trace, ran, again>>

SpecNew == InitNew /\ [][construct]_vars

\* the element is a plain mapping all of whose values are scalars
IsPlainScalarMapping(e) ==
  /\ e.typeof = "object" /\ ~e.isNull /\ e.ctor = "Object"
  /\ \A fld \in Fields : e.rec[fld].k # "obj"

\* C13: construction fails when the argument is no sequence or when one of
\* its elements is no plain scalar-valued mapping (a number, null, a record
\* holding a nested object); when it succeeds the pipeline starts in mode
\* FLAT with no deferred step and no facets.
C13_ConstructorValidates ==
  last = "new" =>
    /\ (~arg.isArray \/ \E i \in 1..Len(arg.elems) : ~IsPlainScalarMapping(arg.elems[i]))
         => ret.kind = "throw"
    /\ ret.kind # "throw" =>
         (ret = This /\ step = STEPS_DATASET /\ funcs = <<>> /\ facets = <<>>)

====
